---- MODULE Spec2Model ----
(***************************************************************************)
(* NyaaStats, src/utils.js: the player data aggregation pipeline of class  *)
(* Utils.  createPlayerData consults the per-player cache file stats.json, *)
(* on a miss builds the snapshot (getPlayerTotalData: statistics file,     *)
(* advancements file, binary player save, name history through the rate    *)
(* limited getMojangAPI), checks the asset files, starts the asset         *)
(* downloads, merges the caller's ban flag and writes the cache file.      *)
(*                                                                         *)
(* Node runs the code on one thread: an action is the code that runs       *)
(* between two suspension points (an await, an I/O callback, a timer).     *)
(***************************************************************************)
EXTENDS Integers, Sequences, FiniteSets, Bags, TLC

\* ---------------------------------------------------------------- bounds
MaxCalls == 2      \* createPlayerData invocations in one run
MaxLen   == 3      \* longest name-history response given to the sort
MaxT     == 2      \* changedToAt ranges over 0..MaxT
MaxTime  == 4      \* the clock runs over 0..MaxTime seconds
MaxTicks == 41     \* Spigot.ticksLived ranges over 0..MaxTicks (and 72000)

Calls == 1..MaxCalls
\* config.api.ratelimit, in seconds: 0 disables the limiter.
RateLimits == {0, 1}
Uuids == {"u1", "u2"}
AssetFiles == {"avatar.png", "body.png", "skin.png"}

\* ------------------------------------------------------------ name history
\* One entry of the service's response: {name, changedToAt?}.
Names == {"a", "b"}
Entries == [name : Names, changedToAt : 0..MaxT] \cup [name : Names]

\* (x.changedToAt || 0): an absent (or zero) changedToAt counts as 0.
KeyNoDefault(e) == IF "changedToAt" \in DOMAIN e THEN e.changedToAt ELSE MaxT + 1
Key(e) == IF "changedToAt" \in DOMAIN e THEN e.changedToAt ELSE 0

\* The comparator of history.sort: negative when a is to come before b.
Compare(a, b) == Key(b) - Key(a)

\* Array.prototype.sort with that comparator (a stable sort): e is put
\* after every element that does not have to come after it.
RECURSIVE Insert(_, _)
Insert(e, s) ==
    IF s = <<>> THEN <<e>>
    ELSE IF Compare(e, Head(s)) < 0 THEN <<e>> \o s
    ELSE <<Head(s)>> \o Insert(e, Tail(s))

RECURSIVE SortFrom(_, _)
SortFrom(s, acc) ==
    IF s = <<>> THEN acc ELSE SortFrom(Tail(s), Insert(Head(s), acc))

SortHistory(h) == SortFrom(h, <<>>)

\* What the service can answer in the pipeline runs: a failure (timeout,
\* non-2xx, network error), an empty body, or a history in any order.
ApiFailure == [status |-> "failure"]
ApiNoBody  == [status |-> "ok"]
ApiOk(h)   == [status |-> "ok", body |-> h]
Histories ==
    { <<>>,
      <<[name |-> "a"]>>,
      <<[name |-> "a"], [name |-> "b", changedToAt |-> 2]>> }
ApiOutcomes == {ApiFailure, ApiNoBody} \cup { ApiOk(h) : h \in Histories }

\* ---------------------------------------------------------------- snapshot
Null == [null |-> TRUE]
NoFile == [nofile |-> TRUE]

\* pdata of getPlayerData, and the object getPlayerTotalData returns.
PDataLastName(u, history) ==
    [playername |-> history[Len(history)].name, names |-> history, uuid |-> u]
PData(u, history) ==
    [playername |-> history[1].name, names |-> history, uuid |-> u]
TotalData(u, history) ==
    [stats |-> "merged", stats_source |-> "source", advancements |-> "adv",
     data |-> PData(u, history)]

\* The player save as getPlayerData reads it: Spigot.ticksLived is a tag
\* with a value, or there is no such tag.
TicksPerSecond == 20
Ticks == (0..MaxTicks) \cup {72000}
Nbts == [ticksLived : Ticks] \cup {[other |-> TRUE]}

\* A JavaScript number q that is a multiple of 1/20: q = int + frac / 20.
\* lived = '' when the tag is absent, else getValue() / 20 (a division of
\* numbers, not of integers).
EmptyString == [string |-> ""]
TimeLivedTruncated(nbt) ==
    IF "ticksLived" \in DOMAIN nbt
    THEN [int |-> nbt.ticksLived \div TicksPerSecond, frac |-> 0]
    ELSE EmptyString
TimeLived(nbt) ==
    IF "ticksLived" \in DOMAIN nbt
    THEN [int |-> nbt.ticksLived \div TicksPerSecond,
          frac |-> nbt.ticksLived % TicksPerSecond]
    ELSE EmptyString

\* pdata with the field read from the player save.
PDataLived(u, history, nbt) == [time_lived |-> TimeLived(nbt)] @@ PData(u, history)

\* data.data = {...data.data, banned}
WithBanned(d, b) == [d EXCEPT !.data = [banned |-> b] @@ d.data]

\* data && data.stats && data.data
Valid(d) == "stats" \in DOMAIN d /\ "data" \in DOMAIN d

\* A cache file the program wrote earlier.
CachedSnapshots ==
    { WithBanned(TotalData(u, <<[name |-> "a"]>>), b) : u \in Uuids, b \in BOOLEAN }

\* ------------------------------------------------------------------- state
VARIABLES
    ratelimit,   \* config.api.ratelimit
    players,     \* the uuids createPlayerData is called for (getAllPlayers())
    apiLimited,  \* this.apiLimited, the limiter flag
    now,         \* the time, in seconds since new Utils()
    lastEnd,     \* when the last name-history request settled, and whether it failed
    timers,      \* pending setTimeout(() => apiLimited = false, delay): the bag of due times
    env,         \* per uuid: which input files can be read, what the service answers
    cache,       \* per uuid: the content of <output>/<uuid>/stats.json, or NoFile
    files,       \* per uuid: the asset files present in <output>/<uuid>/
    pending,     \* per uuid: the asset downloads started and not finished
    pc,          \* per call: where the createPlayerData invocation stands
    arg,         \* per call: its arguments (uuid, banned)
    data,        \* per call: the local variable data of createPlayerData
    outcome,     \* per call: how its promise settled, and with what
    obs,         \* per call: what it did (requests issued, downloads started, ...)
    sortIn,      \* the response body handed to getNameHistory's sort
    sortOut,     \* what getNameHistory returned for it
    nbt,         \* the player save handed to getPlayerData's build
    built        \* what getPlayerData settled with for nbt and sortIn

vars == <<ratelimit, players, apiLimited, now, lastEnd, timers, env, cache, files, pending,
          pc, arg, data, outcome, obs, sortIn, sortOut, nbt, built>>
sortVars == <<sortIn, sortOut, nbt, built>>
config == <<ratelimit, players>>
diskVars == <<cache, files, pending>>
limiterVars == <<apiLimited, timers>>
NoEnd == [none |-> TRUE]

NoArg == [uuid |-> "u1", banned |-> FALSE]
Unsettled == [settled |-> "no"]
Resolved(d) == [settled |-> "resolved", value |-> d]
Rejected == [settled |-> "rejected"]
NoObs == [cached |-> FALSE, prior |-> {}, reqs |-> 0, failed |-> FALSE,
          checked |-> FALSE, avatarAt |-> FALSE, bodyAt |-> FALSE,
          threw |-> FALSE, dls |-> {}, wrote |-> FALSE]

Envs == [stats : BOOLEAN, advancements : BOOLEAN, playerdata : BOOLEAN,
         api : ApiOutcomes]
Answers(r) == [stats |-> TRUE, advancements |-> TRUE, playerdata |-> TRUE, api |-> r]

\* The state after new Utils(): the flag is unlocked, no timer is pending.
InitUtils ==
    /\ ratelimit \in RateLimits
    /\ apiLimited = FALSE
    /\ now = 0
    /\ lastEnd = NoEnd
    /\ timers = EmptyBag
    /\ pending = [u \in Uuids |-> {}]
    /\ pc = [c \in Calls |-> "idle"]
    /\ arg = [c \in Calls |-> NoArg]
    /\ data = [c \in Calls |-> Null]
    /\ outcome = [c \in Calls |-> Unsettled]
    /\ obs = [c \in Calls |-> NoObs]
    /\ sortOut = Null
    /\ built = Unsettled

\* One player, u1, whose directories are in any state earlier runs and the
\* game server can have left them in: each input file readable or not, any
\* answer of the name service, each asset file present or not, and either
\* no cache file or one written by an earlier createPlayerData (the inputs
\* are not read when the cache file exists).
InitOnePlayer ==
    /\ InitUtils
    /\ sortIn = <<>>
    /\ nbt = [other |-> TRUE]
    /\ players = {"u1"}
    /\ \E k \in {NoFile} \cup {s \in CachedSnapshots : s.data.uuid = "u1"} :
          /\ cache = [u \in Uuids |-> IF u = "u1" THEN k ELSE NoFile]
          /\ \E e \in IF k = NoFile THEN Envs ELSE {Answers(ApiFailure)} :
                env = [u \in Uuids |-> e]
    /\ \E f \in SUBSET {"avatar.png", "body.png"} :
          files = [u \in Uuids |-> IF u = "u1" THEN f ELSE {}]

\* Two players seen for the first time (no cache file, no asset file), with
\* readable input files; the name service answers or fails for each.
InitTwoPlayers ==
    /\ InitUtils
    /\ sortIn = <<>>
    /\ nbt = [other |-> TRUE]
    /\ players = Uuids
    /\ cache = [u \in Uuids |-> NoFile]
    /\ files = [u \in Uuids |-> {}]
    /\ env \in [Uuids -> {Answers(ApiFailure), Answers(ApiOk(<<[name |-> "a"]>>))}]

Init == InitOnePlayer \/ InitTwoPlayers

\* ------------------------------------------------------------ createPlayerData
Done(c) == pc[c] = "done"
Settle(c, o) == /\ outcome' = [outcome EXCEPT ![c] = o]
                /\ pc' = [pc EXCEPT ![c] = "done"]

\* fs.existsSync(path.join(playerpath, 'stats.json'))
CacheHitNever(u) == FALSE
CacheHit(u) == cache[u] # NoFile

\* fs.existsSync(path.join(playerpath, 'avatar.png') && path.join(playerpath, 'body.png')):
\* a non-empty string && a string is the second string, so the one path
\* whose existence is tested is body.png.
AssetsExist(u) == "body.png" \in files[u]

\* The catch around await Utils.getPlayerAssets(...) logs the error and goes on.
AssetErrorRejects == FALSE
AssetErrorCaught == TRUE

\* Lines 261-276 up to the await: the asset check on data d, run by call c
\* whose record of observations so far is o.  getPlayerAssets is synchronous:
\* ensureDirSync throws or the three downloads are started, then the await
\* suspends the call.
AssetCheck(c, d, o) ==
    LET u == arg'[c].uuid
        seen == [o EXCEPT !.checked = TRUE,
                          !.avatarAt = "avatar.png" \in files[u],
                          !.bodyAt = "body.png" \in files[u]]
    IN  /\ data' = [data EXCEPT ![c] = d]
        /\ UNCHANGED <<cache, files>>
        /\ IF AssetsExist(u)
           THEN /\ Settle(c, Resolved(d))
                /\ obs' = [obs EXCEPT ![c] = seen]
                /\ UNCHANGED pending
           ELSE IF Valid(d)
           THEN \E dirOk \in BOOLEAN :
                  IF dirOk
                  THEN /\ pending' = [pending EXCEPT ![u] = @ \cup AssetFiles]
                       /\ obs' = [obs EXCEPT ![c] = [seen EXCEPT !.dls = AssetFiles]]
                       /\ pc' = [pc EXCEPT ![c] = "assets"]
                       /\ UNCHANGED outcome
                  ELSE /\ obs' = [obs EXCEPT ![c] = [seen EXCEPT !.threw = TRUE]]
                       /\ UNCHANGED pending
                       /\ IF AssetErrorCaught
                          THEN pc' = [pc EXCEPT ![c] = "assets"] /\ UNCHANGED outcome
                          ELSE Settle(c, Rejected)
           ELSE /\ Settle(c, Rejected)
                /\ obs' = [obs EXCEPT ![c] = seen]
                /\ UNCHANGED pending

\* getPlayerState / getPlayerAdvancements: the file is read and the promise
\* resolves, or (no configured directory, unreadable file) it rejects.
getPlayerState(u) == env[u].stats
getPlayerAdvancements(u) == env[u].advancements

\* createPlayerData(uuid, banned) is called.  On a cache hit lines 250-276
\* run up to the await of getPlayerAssets.  On a miss getPlayerTotalData
\* reads the statistics and advancements files (synchronous reads, resumed
\* by promise jobs): if both are read it waits for the player save to load,
\* otherwise its catch returns null and createPlayerData goes on to the
\* asset check with data = null.
Start(c, u, b) ==
    /\ pc[c] = "idle"
    /\ \A k \in Calls : k < c => pc[k] # "idle"
    /\ u \in players
    /\ arg' = [arg EXCEPT ![c] = [uuid |-> u, banned |-> b]]
    /\ UNCHANGED <<config, now, lastEnd, env, limiterVars, sortVars>>
    /\ LET o == [NoObs EXCEPT !.prior = {k \in Calls : Done(k)},
                              !.cached = (cache[u] # NoFile)]
       IN  IF CacheHit(u)
           THEN AssetCheck(c, cache[u], o)
           ELSE IF getPlayerState(u) /\ getPlayerAdvancements(u)
           THEN /\ pc' = [pc EXCEPT ![c] = "getPlayerData"]
                /\ obs' = [obs EXCEPT ![c] = o]
                /\ UNCHANGED <<data, outcome, diskVars>>
           ELSE AssetCheck(c, Null, o)

\* ----------------------------------------------------------------- limiter
\* this.config.api.ratelimit && this.apiLimited
LimitedNever == FALSE
LimitedWhateverTheConfig == apiLimited
Limited == ratelimit # 0 /\ apiLimited

InFlight == {c \in Calls : pc[c] = "request"}

\* getMojangAPI from its first line: wait 10 ms and start over, or lock the
\* flag and issue the request.
getMojangAPITimerAtIssue(c) ==
    IF Limited
    THEN /\ pc' = [pc EXCEPT ![c] = "delay"]
         /\ UNCHANGED <<limiterVars, obs>>
    ELSE /\ apiLimited' = TRUE
         /\ pc' = [pc EXCEPT ![c] = "request"]
         /\ obs' = [obs EXCEPT ![c].reqs = @ + 1]
         /\ timers' = timers (+) SetToBag({now + ratelimit})
getMojangAPI(c) ==
    IF Limited
    THEN /\ pc' = [pc EXCEPT ![c] = "delay"]
         /\ UNCHANGED <<limiterVars, obs>>
    ELSE /\ apiLimited' = TRUE
         /\ pc' = [pc EXCEPT ![c] = "request"]
         /\ obs' = [obs EXCEPT ![c].reqs = @ + 1]
         /\ UNCHANGED timers

\* getPlayerData: the callback of nbt.loadFromZlibCompressedFile.  An
\* unreadable save rejects, which getPlayerTotalData turns into null;
\* otherwise getNameHistory calls getMojangAPI.
getPlayerData(c) ==
    /\ pc[c] = "getPlayerData"
    /\ UNCHANGED <<config, now, lastEnd, env, sortVars, arg>>
    /\ IF env[arg[c].uuid].playerdata
       THEN getMojangAPI(c) /\ UNCHANGED <<data, outcome, diskVars>>
       ELSE AssetCheck(c, Null, obs[c]) /\ UNCHANGED limiterVars

\* await delay(10) is over: return this.getMojangAPI(apiPath).
Delay(c) ==
    /\ pc[c] = "delay"
    /\ getMojangAPI(c)
    /\ UNCHANGED <<config, now, lastEnd, env, sortVars, diskVars, arg, data, outcome>>

\* The delays of the two unlock timers, in seconds.
FailureDelayAsSuccess == ratelimit * 1
FailureDelay == ratelimit * 3
SuccessDelay == ratelimit * 1

\* setTimeout(() => { this.apiLimited = false }, delay)
setTimeoutNever(delay) == timers' = timers
setTimeout(delay) == timers' = timers (+) SetToBag({now + delay})

\* getNameHistory on what getMojangAPI gave it: null for a thrown error or
\* an empty body, else the body sorted.
getNameHistory(r) ==
    IF r.status = "failure" \/ "body" \notin DOMAIN r THEN Null
    ELSE [history |-> SortHistory(r.body)]

\* getPlayerData from line 131 and getPlayerTotalData's return: the total
\* data when the history has a first entry, null otherwise.
getPlayerTotalDataPartial(u, h) ==
    IF h # Null /\ Len(h.history) > 0 THEN TotalData(u, h.history)
    ELSE [stats |-> "merged", stats_source |-> "source", advancements |-> "adv",
          data |-> [names |-> <<>>, uuid |-> u]]
getPlayerTotalData(u, h) ==
    IF h # Null /\ Len(h.history) > 0 THEN TotalData(u, h.history) ELSE Null

\* axios.get settles.  getMojangAPI schedules the unlock timer and returns
\* or throws; getNameHistory sorts; getPlayerData resolves or rejects;
\* getPlayerTotalData returns and createPlayerData runs its asset check.
Response(c) ==
    /\ pc[c] = "request"
    /\ UNCHANGED <<config, now, env, apiLimited, sortVars, arg>>
    /\ lastEnd' = [at |-> now, failed |-> env[arg[c].uuid].api.status = "failure"]
    /\ LET u == arg[c].uuid
           r == env[u].api
       IN  /\ setTimeout(IF r.status = "failure" THEN FailureDelay ELSE SuccessDelay)
           /\ AssetCheck(c, getPlayerTotalData(u, getNameHistory(r)),
                         [obs[c] EXCEPT !.failed = (r.status = "failure")])

\* An unlock timer fires: this.apiLimited = false.
Unlock(d) ==
    /\ BagIn(d, timers)
    /\ apiLimited' = FALSE
    /\ timers' = timers (-) SetToBag({d})
    /\ UNCHANGED <<config, now, lastEnd, env, sortVars, diskVars, pc, arg, data, outcome, obs>>

\* ------------------------------------------------------------------ assets
\* writeJSON(path.join(playerpath, 'stats.json'), data)
writeJSON(u, d) == cache' = [cache EXCEPT ![u] = d]

\* createPlayerData resumes after await Utils.getPlayerAssets(...): the ban
\* flag is merged, the cache file written and the promise resolved.
Finalize(c) ==
    /\ pc[c] = "assets"
    /\ LET d == WithBanned(data[c], arg[c].banned)
       IN  /\ data' = [data EXCEPT ![c] = d]
           /\ writeJSON(arg[c].uuid, d)
           /\ Settle(c, Resolved(d))
    /\ obs' = [obs EXCEPT ![c].wrote = TRUE]
    /\ UNCHANGED <<config, now, lastEnd, env, limiterVars, sortVars, files, pending, arg>>

\* The downloads started by getPlayerAssets end, each on its own: the files
\* in ok are written, the failures of the others are logged.
download(u, ok) ==
    /\ pending[u] # {}
    /\ ok \subseteq pending[u]
    /\ pending' = [pending EXCEPT ![u] = {}]
    /\ files' = [files EXCEPT ![u] = @ \cup (ok \ {"skin.png"})]
    /\ UNCHANGED <<config, now, lastEnd, env, limiterVars, sortVars, cache, pc, arg, data, outcome, obs>>

Next ==
    \/ \E c \in Calls, u \in Uuids, b \in BOOLEAN : Start(c, u, b)
    \/ \E c \in Calls : getPlayerData(c)
    \/ \E c \in Calls : Delay(c)
    \/ \E c \in Calls : Response(c)
    \/ \E d \in BagToSet(timers) : Unlock(d)
    \/ \E c \in Calls : Finalize(c)
    \/ \E u \in Uuids, ok \in SUBSET AssetFiles : download(u, ok)

Spec == Init /\ [][Next]_vars

\* ------------------------------------------------------------------- time
\* A timer fires when it is due.
UnlockDue(d) == d <= now /\ Unlock(d)

\* A second passes, once the timers that are due have fired.
Tick ==
    /\ now < MaxTime
    /\ \A d \in BagToSet(timers) : d > now
    /\ now' = now + 1
    /\ UNCHANGED <<config, lastEnd, env, limiterVars, sortVars, diskVars, pc, arg, data, outcome, obs>>

\* A positive rate limit and two players whose asset files are on disk already and who have no cache
\* file: every call builds the snapshot, looks the names up and resolves at
\* line 262, so the steps that follow the asset fetch never run.
InitTimed ==
    /\ InitUtils
    /\ ratelimit # 0
    /\ sortIn = <<>>
    /\ nbt = [other |-> TRUE]
    /\ players = Uuids
    /\ cache = [u \in Uuids |-> NoFile]
    /\ files = [u \in Uuids |-> {"avatar.png", "body.png"}]
    /\ env \in [Uuids -> {Answers(ApiFailure), Answers(ApiOk(<<[name |-> "a"]>>))}]

NextTimed ==
    \/ \E c \in Calls, u \in Uuids, b \in BOOLEAN : Start(c, u, b)
    \/ \E c \in Calls : getPlayerData(c)
    \/ \E c \in Calls : Delay(c)
    \/ \E c \in Calls : Response(c)
    \/ \E d \in BagToSet(timers) : UnlockDue(d)
    \/ Tick

\* The program with its clock: requests take any time, timers fire on time.
SpecTimed == InitTimed /\ [][NextTimed]_vars

\* The same calls without the clock, under the scheduling of the event
\* loop: a request in flight settles (axios answers, fails or times out
\* after 30 s), a pending timer fires, and a caller whose delay(10) is over
\* runs its re-check.
NextFair ==
    \/ \E c \in Calls, u \in Uuids, b \in BOOLEAN : Start(c, u, b)
    \/ \E c \in Calls : getPlayerData(c)
    \/ \E c \in Calls : Delay(c)
    \/ \E c \in Calls : Response(c)
    \/ \E d \in BagToSet(timers) : Unlock(d)

Fairness ==
    /\ \A c \in Calls : WF_vars(Delay(c))
    /\ \A c \in Calls : WF_vars(Response(c))
    /\ WF_vars(\E d \in BagToSet(timers) : Unlock(d))

SpecFair == InitTimed /\ [][NextFair]_vars /\ Fairness

\* -------------------------------------------------------------- the sort alone
\* Sequences over S of length at most n.
SeqsUpTo(S, n) == UNION { [1..k -> S] : k \in 0..n }

\* getNameHistory is handed any response body of up to MaxLen entries.
InitSort ==
    /\ InitUtils
    /\ players = {}
    /\ cache = [u \in Uuids |-> NoFile]
    /\ files = [u \in Uuids |-> {}]
    /\ env = [u \in Uuids |-> Answers(ApiFailure)]
    /\ sortIn \in SeqsUpTo(Entries, MaxLen)
    /\ nbt = [other |-> TRUE]

SortResponse ==
    /\ sortOut = Null
    /\ built = Unsettled
    /\ sortOut' = getNameHistory(ApiOk(sortIn))
    /\ UNCHANGED <<config, now, lastEnd, env, limiterVars, diskVars, pc, arg, data, outcome, obs, sortIn, nbt, built>>

SpecSort == InitSort /\ [][SortResponse]_vars

\* ------------------------------------------------------- getPlayerData alone
\* getPlayerData has loaded a player save; the name service answers with a
\* failure, an empty body or any history of up to MaxLen entries.
InitPlayerData ==
    /\ InitUtils
    /\ players = {}
    /\ cache = [u \in Uuids |-> NoFile]
    /\ files = [u \in Uuids |-> {}]
    /\ \E r \in {ApiFailure, ApiNoBody} \cup {ApiOk(h) : h \in SeqsUpTo(Entries, MaxLen)} :
          env = [u \in Uuids |-> Answers(r)]
    /\ sortIn = <<>>
    /\ nbt \in Nbts

\* Lines 125-151: the history is looked up; with a first entry pdata is
\* built and the promise resolves with it, otherwise it rejects.
BuildPlayerData ==
    /\ built = Unsettled
    /\ LET h == getNameHistory(env["u1"].api)
       IN  built' = IF h # Null /\ Len(h.history) > 0
                    THEN Resolved(PDataLived("u1", h.history, nbt))
                    ELSE Rejected
    /\ UNCHANGED <<config, now, lastEnd, env, limiterVars, diskVars, pc, arg, data, outcome, obs,
                   sortIn, sortOut, nbt>>

SpecPlayerData == InitPlayerData /\ [][BuildPlayerData]_vars

\* ------------------------------------------------------------------ claims
Started(c) == pc[c] # "idle"
Snapshot(c) == outcome[c].value
ResolvedWithSnapshot(c) ==
    outcome[c].settled = "resolved" /\ Valid(Snapshot(c))
LookupFails(u) ==
    \/ env[u].api.status = "failure"
    \/ "body" \notin DOMAIN env[u].api
    \/ env[u].api.body = <<>>

\* C1 as stated: in every reachable state, whatever the configured rate
\* limit (0 included), at most one name-history request is in flight.
C1_OneInFlightAnyRate == Cardinality(InFlight) <= 1

\* C1 amended: with a non-zero rate limit at most one name-history request
\* is in flight, and no unlock timer is pending while one is.
C1_OneInFlightWhenLimited ==
    ratelimit # 0 =>
        /\ Cardinality(InFlight) <= 1
        /\ InFlight # {} => apiLimited /\ timers = EmptyBag

\* C1 witness: the limiter is on, one caller's request is in flight and
\* another caller waits on the flag.
C1_Witness ==
    /\ ratelimit # 0
    /\ InFlight # {}
    /\ \E c \in Calls : pc[c] = "delay"

\* C2: every call that resolves with a snapshot returns one whose banned
\* field is the caller's value.
C2_BannedIsCallers ==
    \A c \in Calls :
        ResolvedWithSnapshot(c) =>
            /\ "banned" \in DOMAIN Snapshot(c).data
            /\ Snapshot(c).data.banned = arg[c].banned

\* C3: at the asset check with a valid snapshot (and a player directory
\* that can be created), no download is started when avatar.png and
\* body.png both exist, and all three are started when one is missing.
C3_DownloadsIffAssetMissing ==
    \A c \in Calls :
        obs[c].checked /\ Valid(data[c]) /\ ~obs[c].threw =>
            obs[c].dls = IF obs[c].avatarAt /\ obs[c].bodyAt THEN {} ELSE AssetFiles

\* c2 is the call after c1 for the same uuid and ban flag: it started when
\* c1 had returned, and every other call for that uuid was over before c1
\* started or started after c2 had returned.
Successive(c1, c2) ==
    /\ c1 # c2 /\ Done(c1) /\ Done(c2)
    /\ arg[c1] = arg[c2]
    /\ c1 \in obs[c2].prior
    /\ \A k \in Calls \ {c1, c2} :
          Started(k) /\ arg[k].uuid = arg[c1].uuid =>
              k \in obs[c1].prior \/ c2 \in obs[k].prior

\* C4 as stated: with stats.json present, two successive calls with the
\* same banned value return identical snapshots and the second issues no
\* name-history request and no asset download.
C4_SecondCallNoExternal ==
    \A c1, c2 \in Calls :
        Successive(c1, c2) /\ obs[c1].cached =>
            /\ outcome[c1] = outcome[c2]
            /\ ResolvedWithSnapshot(c2)
            /\ obs[c2].reqs = 0
            /\ obs[c2].dls = {}

\* C4 amended: the two calls return identical snapshots and the second
\* issues no name-history request; it starts no asset download when
\* body.png exists at its asset check, and starts the three downloads
\* again when body.png is missing (and the directory can be created).
C4_SecondCallNoLookup ==
    \A c1, c2 \in Calls :
        Successive(c1, c2) /\ obs[c1].cached =>
            /\ outcome[c1] = outcome[c2]
            /\ ResolvedWithSnapshot(c2)
            /\ obs[c2].reqs = 0
            /\ obs[c2].bodyAt => obs[c2].dls = {}
            /\ ~obs[c2].bodyAt /\ ~obs[c2].threw => obs[c2].dls = AssetFiles

\* C4 witness: a second successive call on a cached player that found
\* body.png missing and started the downloads again.
C4_Witness ==
    \E c1, c2 \in Calls :
        /\ Successive(c1, c2) /\ obs[c1].cached
        /\ obs[c2].dls = AssetFiles

\* C5: on a cache miss, when the player save cannot be read or the lookup
\* fails or returns an empty history, the call ends rejected.
C5_MissingRequiredRejects ==
    \A c \in Calls :
        Done(c) /\ ~obs[c].cached
                /\ (~env[arg[c].uuid].playerdata \/ LookupFails(arg[c].uuid))
            => outcome[c] = Rejected

\* C6: on a cache miss with a readable player save and a successful lookup,
\* a missing statistics or advancements file does not fail the call: it
\* resolves with a snapshot.
C6_MissingOptionalTolerated ==
    \A c \in Calls :
        Done(c) /\ ~obs[c].cached
                /\ env[arg[c].uuid].playerdata /\ ~LookupFails(arg[c].uuid)
                /\ (~env[arg[c].uuid].stats \/ ~env[arg[c].uuid].advancements)
            => ResolvedWithSnapshot(c)

\* changedToAt with a missing value counted as 0.
ChangedToAtOrZero(e) == IF "changedToAt" \in DOMAIN e THEN e.changedToAt ELSE 0
Count(s, e) == Cardinality({i \in 1..Len(s) : s[i] = e})

\* C7: what getNameHistory returns is a permutation of the response,
\* ordered by changedToAt descending with a missing changedToAt counted as
\* 0, so entries without one come after every entry with a later time.
C7_SortedDescending ==
    sortOut # Null =>
        LET out == sortOut.history
        IN  /\ Len(out) = Len(sortIn)
            /\ \A e \in Entries : Count(out, e) = Count(sortIn, e)
            /\ \A i, j \in 1..Len(out) :
                  i < j => ChangedToAtOrZero(out[i]) >= ChangedToAtOrZero(out[j])
            /\ \A i, j \in 1..Len(out) :
                  /\ "changedToAt" \notin DOMAIN out[i]
                  /\ "changedToAt" \in DOMAIN out[j] /\ out[j].changedToAt > 0
                  => j < i

\* C7 witness: a response that was out of order, with an entry lacking
\* changedToAt ahead of a dated one, has been sorted.
C7_Witness ==
    /\ sortOut # Null
    /\ Len(sortIn) = MaxLen
    /\ "changedToAt" \notin DOMAIN sortIn[1]
    /\ "changedToAt" \in DOMAIN sortIn[2] /\ sortIn[2].changedToAt > 0
    /\ sortOut.history # sortIn

\* C8: one invocation issues at most one outbound request, and a failed
\* request makes the aggregation of that player fail.
C8_NoRetryAndFailureFails ==
    \A c \in Calls :
        /\ obs[c].reqs <= 1
        /\ Done(c) /\ obs[c].failed => outcome[c] = Rejected

\* C9: with the rate limit 0 no caller ever waits on the flag: every
\* caller that reached getMojangAPI has issued its request.
C9_NoWaitWhenDisabled ==
    ratelimit = 0 =>
        \A c \in Calls :
            /\ pc[c] # "delay"
            /\ pc[c] = "request" => obs[c].reqs = 1

\* C9 witness: with the rate limit 0 a caller issued its request while the
\* flag was locked and another request was in flight.
C9_Witness ==
    /\ ratelimit = 0
    /\ apiLimited
    /\ Cardinality(InFlight) >= 2

\* C10: with valid snapshot data the call never rejects, whatever happens
\* to the asset fetch; when the fetch was attempted (thrown or not) the call
\* resolves with the snapshot and the snapshot has been written.
C10_AssetFailureNotFatal ==
    \A c \in Calls :
        obs[c].checked /\ Valid(data[c]) =>
            /\ outcome[c] # Rejected
            /\ Done(c) /\ ~obs[c].bodyAt =>
                  /\ outcome[c] = Resolved(data[c])
                  /\ obs[c].wrote
                  /\ cache[arg[c].uuid] # NoFile

\* C10 witness: getPlayerAssets threw, and the call resolved and wrote the
\* cache file all the same; and a call whose downloads all failed resolved.
C10_Witness ==
    /\ \E c \in Calls :
          Done(c) /\ obs[c].threw /\ obs[c].wrote /\ ResolvedWithSnapshot(c)
    /\ \E c \in Calls :
          /\ Done(c) /\ obs[c].dls = AssetFiles /\ ResolvedWithSnapshot(c)
          /\ pending[arg[c].uuid] = {} /\ files[arg[c].uuid] = {}

\* C11: for every ticksLived present in the player save, the built
\* snapshot's time_lived is ticksLived / 20 exactly: 20 * time_lived is
\* ticksLived, and ticksLived = 72000 gives 3600.
C11_TimeLivedIsTicksOver20 ==
    built.settled = "resolved" /\ "ticksLived" \in DOMAIN nbt =>
        LET q == built.value.time_lived
        IN  /\ q # EmptyString
            /\ q.frac \in 0..19
            /\ 20 * q.int + q.frac = nbt.ticksLived
            /\ nbt.ticksLived = 72000 => q = [int |-> 3600, frac |-> 0]

\* C11 witness: a snapshot was built from a save with ticksLived = 72000.
C11_Witness ==
    /\ built.settled = "resolved"
    /\ "ticksLived" \in DOMAIN nbt
    /\ nbt.ticksLived = 72000
    /\ built.value.time_lived.int = 3600

\* The interval the limiter keeps after the request that settled last: the
\* rate limit after a success, three times the rate limit after a failure.
Interval == IF lastEnd.failed THEN 3 * ratelimit ELSE ratelimit
Acquires(c) == obs[c].reqs = 0 /\ obs'[c].reqs = 1

\* C12: with a rate limit R > 0, after a name-history request settles no
\* call issues the next request before R seconds have passed if it
\* succeeded, 3R seconds if it failed; the flag stays locked, with nothing
\* in flight, for that whole interval, and once the interval is over the
\* flag is unlocked unless another request has taken it again.
C12_NextRequestAfterInterval ==
    /\ [](ratelimit # 0 /\ lastEnd # NoEnd =>
            /\ now < lastEnd.at + Interval => apiLimited /\ InFlight = {}
            /\ now > lastEnd.at + Interval /\ InFlight = {} => ~apiLimited)
    /\ [][\A c \in Calls :
            ratelimit # 0 /\ lastEnd # NoEnd /\ Acquires(c) =>
                now >= lastEnd.at + Interval]_vars

\* C12 witness: a request is in flight that was issued after the failure
\* of the previous one, three seconds or more after it.
C12_Witness ==
    /\ ratelimit # 0
    /\ lastEnd # NoEnd /\ lastEnd.failed
    /\ InFlight # {}
    /\ now >= lastEnd.at + 3 * ratelimit

\* C13: with the finitely many callers of the model, every request
\* settling and every timer firing, a caller that waits on the locked flag
\* eventually issues its request, and a failed lookup is eventually
\* followed by the flag being unlocked.
C13_WaiterEventuallyRequests ==
    /\ \A c \in Calls : (pc[c] = "delay") ~> (pc[c] = "request")
    /\ \A c \in Calls : obs[c].failed ~> ~apiLimited

\* C13 witness: a caller waits on the flag that the failed lookup of
\* another call left locked, the failure's unlock timer pending.
C13_Witness ==
    \E c, w \in Calls :
        /\ obs[c].failed /\ pc[c] = "done"
        /\ pc[w] = "delay"
        /\ apiLimited /\ timers # EmptyBag /\ InFlight = {}

\* Call c is the only call for its uuid that started downloads.
OnlyDownloader(c) ==
    \A o \in Calls \ {c} : arg[o].uuid = arg[c].uuid => obs[o].dls = {}

\* C14: within one run on a cache miss the stages follow one another: the
\* name-history request is issued before the asset check, the downloads
\* are started after the lookup has ended, and the cache file is written
\* only when the downloads that run started have finished.
C14_WriteAfterDownloads ==
    \A c \in Calls : Started(c) /\ ~obs[c].cached =>
        /\ pc[c] = "request" => ~obs[c].checked /\ obs[c].dls = {}
        /\ obs[c].wrote => obs[c].checked /\ obs[c].reqs > 0
        /\ obs[c].wrote /\ OnlyDownloader(c) =>
              pending[arg[c].uuid] \cap obs[c].dls = {}

\* Call c is the only call made for its uuid.
OnlyCall(c) == \A o \in Calls \ {c} : Started(o) => arg[o].uuid # arg[c].uuid

\* C15: after a call resolved with a snapshot, the cache file of its uuid
\* exists and holds that snapshot (no other call for the uuid having run).
C15_ResolvedIsPersisted ==
    \A c \in Calls :
        ResolvedWithSnapshot(c) /\ OnlyCall(c) =>
            /\ cache[arg[c].uuid] # NoFile
            /\ cache[arg[c].uuid] = Snapshot(c)

\* C16 as stated: whenever a call issues a name-history request, the cache
\* file of its uuid is absent at that moment, whatever the interleaving.
C16_NoRequestWhileCached ==
    [][\A c \in Calls : Acquires(c) => cache[arg[c].uuid] = NoFile]_vars

\* C16: a call that found the cache file of its uuid present when it
\* started issues no name-history request and never enters the lookup.
C16_NoRequestAfterCacheHit ==
    \A c \in Calls :
        /\ obs[c].reqs > 0 => ~obs[c].cached
        /\ Started(c) /\ obs[c].cached =>
              pc[c] \notin {"getPlayerData", "delay", "request"}

\* C16 witness: two overlapping calls for one uuid that both started
\* without a cache file; one has written it, the other has its request in
\* flight.
C16_Witness ==
    \E c, o \in Calls :
        /\ c # o /\ arg[c].uuid = arg[o].uuid
        /\ obs[c].wrote /\ ~obs[c].cached /\ obs[c].reqs = 1
        /\ pc[o] = "request" /\ ~obs[o].cached
        /\ cache[arg[o].uuid] # NoFile

\* C17: a snapshot built by getPlayerData has a non-empty names sequence
\* that is the response ordered by changedToAt descending, and playername
\* is the name of its first entry, which has the greatest changedToAt; a
\* failed lookup, an empty body or an empty history gives no snapshot: the
\* build is rejected.
C17_PlayernameIsFirstName ==
    LET r == env["u1"].api
        empty == r.status = "failure" \/ "body" \notin DOMAIN r \/ r.body = <<>>
    IN  /\ built.settled = "resolved" =>
              LET names == built.value.names
              IN  /\ ~empty
                  /\ Len(names) > 0 /\ Len(names) = Len(r.body)
                  /\ \A e \in Entries : Count(names, e) = Count(r.body, e)
                  /\ built.value.playername = names[1].name
                  /\ \A i \in 1..Len(names) :
                        ChangedToAtOrZero(names[1]) >= ChangedToAtOrZero(names[i])
        /\ built # Unsettled /\ empty => built = Rejected

\* C17 witness: a snapshot built from a response whose latest name came
\* second, so the name taken is not the first of the response.
C17_Witness ==
    /\ built.settled = "resolved"
    /\ Len(built.value.names) = 2
    /\ built.value.playername # env["u1"].api.body[1].name
    /\ ChangedToAtOrZero(built.value.names[1]) > ChangedToAtOrZero(built.value.names[2])


\* C18: with a rate limit R > 0, while a request is in flight the flag is
\* locked and no unlock timer is pending (a timer is scheduled only once
\* the request has settled, so none left by an earlier request can release
\* the lock of a later one); at most one timer is pending at any time, and
\* the flag is never unlocked by a step taken while a request is in flight.
C18_NoUnlockWhileInFlight ==
    /\ [](ratelimit # 0 =>
            /\ InFlight # {} => apiLimited /\ timers = EmptyBag
            /\ BagCardinality(timers) <= 1
            /\ timers # EmptyBag => apiLimited)
    /\ [][ratelimit # 0 /\ apiLimited /\ ~apiLimited' => InFlight = {}]_vars

\* C18 witness: a later request is in flight, holding the lock, after an
\* earlier request settled and its unlock timer fired.
C18_Witness ==
    \E c, o \in Calls :
        /\ ratelimit # 0
        /\ pc[c] = "done" /\ obs[c].reqs = 1
        /\ pc[o] = "request"
        /\ apiLimited /\ timers = EmptyBag

\* The player-data part of a snapshot is complete: it has the names of a
\* successful lookup, the name taken from them, the uuid and the ban flag.
Complete(pd) ==
    /\ {"playername", "names", "uuid", "banned"} \subseteq DOMAIN pd
    /\ Len(pd.names) > 0
    /\ pd.playername = pd.names[1].name

\* C19: every cache file holds a complete snapshot, with the statistics
\* part and a complete player-data part; a call whose build gave null has
\* written nothing.
C19_CacheFileIsComplete ==
    /\ \A u \in Uuids :
          cache[u] # NoFile => Valid(cache[u]) /\ Complete(cache[u].data)
    /\ \A c \in Calls :
          /\ obs[c].wrote => cache[arg[c].uuid] # NoFile /\ Valid(data[c])
          /\ pc[c] = "done" /\ data[c] = Null => ~obs[c].wrote

\* C19 witness: one call built a snapshot and wrote it, another call's
\* build failed on the lookup and it ended without writing.
C19_Witness ==
    \E c, o \in Calls :
        /\ obs[c].wrote /\ ~obs[c].cached
        /\ cache[arg[c].uuid] = data[c]
        /\ pc[o] = "done" /\ obs[o].failed /\ data[o] = Null /\ ~obs[o].wrote
        /\ cache[arg[o].uuid] = NoFile

====
